---- MODULE Spec2Model ----
(***************************************************************************)
(* Model of the chart service's indicator engine (src/indicators.py),      *)
(* display window selector and chart generation (src/chart_renderer.py)    *)
(* and HTTP endpoints (src/api_server.py).                                 *)
(*                                                                         *)
(* Numbers.  A pandas cell is a float64.  It is modelled as a record       *)
(* [k, n, d]: k = "num" is the exact rational n/d (in lowest terms, d > 0),*)
(* k = "nan" is NaN (pandas' missing-value marker) and k = "inf" is the    *)
(* signed infinity a float division by zero yields (n is the sign).        *)
(* Arithmetic is exact on rationals; rounding of float64 is not modelled.  *)
(* The square root is taken downwards on a grid of 1/SqrtScale.            *)
(*                                                                         *)
(* Frames.  A DataFrame is a record of its columns set, its index (a       *)
(* sequence of timestamps), one sequence of cells per column (empty when   *)
(* the column is absent) and its attrs.  A Series is [index, values].      *)
(* A timestamp is an integer tick; its calendar date is tick \div          *)
(* TicksPerDay.                                                            *)
(*                                                                         *)
(* Calls.  A call either returns a value or raises: its result is          *)
(* [raised, val] where raised = "" when it returned.                       *)
(***************************************************************************)
EXTENDS Integers, Sequences, FiniteSets, TLC

VARIABLES
    df,             \* the candle series given to the operation
    args,           \* the other arguments of the call made
    pc,             \* where the call stands
    out,            \* what the call returned
    chart_renderer  \* the ChartRenderer object shared by all calls

vars == <<df, args, pc, out, chart_renderer>>

(***************************************************************************)
(* Bounds of the model                                                     *)
(***************************************************************************)
MaxLen == 3          \* longest series of the indicator specifications
TicksPerDay == 3     \* candles per calendar day
MaxStart == 2        \* latest tick of the first candle
MaxWindow == 4       \* largest bb_window tried
SqrtScale == 16      \* grid of the square root: multiples of 1/SqrtScale
MaxIndLen == 2       \* longest series given to calculate_indicators
MaxSeriesLen == 250  \* longest series given to _prepare_chart_data
MaxAnyLen == 3       \* longest series of arbitrary timestamps
MaxTick == 3         \* latest timestamp of a series of arbitrary timestamps
MaxExtra == 4        \* most candles beyond the display window given to generate_chart
MaxInvocations == 2  \* invocations in flight on the shared object

\* (high, low, close) of the candles tried by the indicator specifications
Bars == { <<12, 10, 11>>, <<14, 13, 13>> }
Volumes == {0, 1, 3}
NumStds == {0, 1, 2}

(***************************************************************************)
(* float64 cells                                                           *)
(***************************************************************************)
Abs(x) == IF x < 0 THEN -x ELSE x

Sign(x) == IF x < 0 THEN -1 ELSE IF x > 0 THEN 1 ELSE 0

RECURSIVE GCD(_, _)
GCD(a, b) == IF b = 0 THEN a ELSE GCD(b, a % b)

NaN == [k |-> "nan", n |-> 0, d |-> 1]

Inf(s) == [k |-> "inf", n |-> s, d |-> 1]

Rat(n, d) ==
    LET s == IF d < 0 THEN -1 ELSE 1
        g == GCD(Abs(n), Abs(d))
    IN  [k |-> "num", n |-> (s * n) \div g, d |-> Abs(d) \div g]

Num(i) == [k |-> "num", n |-> i, d |-> 1]

IsNaN(a) == a.k = "nan"

IsNum(a) == a.k = "num"

Neg(a) == IF a.k = "nan" THEN NaN ELSE [a EXCEPT !.n = -a.n]

Add(a, b) ==
    IF a.k = "nan" \/ b.k = "nan" THEN NaN
    ELSE IF a.k = "inf" THEN (IF b.k = "inf" /\ b.n # a.n THEN NaN ELSE a)
    ELSE IF b.k = "inf" THEN b
    ELSE Rat(a.n * b.d + b.n * a.d, a.d * b.d)

Sub(a, b) == Add(a, Neg(b))

Mul(a, b) ==
    IF a.k = "nan" \/ b.k = "nan" THEN NaN
    ELSE IF a.k = "inf" \/ b.k = "inf"
         THEN (IF a.n = 0 \/ b.n = 0 THEN NaN ELSE Inf(Sign(a.n) * Sign(b.n)))
    ELSE Rat(a.n * b.n, a.d * b.d)

\* float division: x/0 is +-inf, 0/0 is NaN, nothing raises
Div(a, b) ==
    IF a.k = "nan" \/ b.k = "nan" THEN NaN
    ELSE IF a.k = "inf" THEN (IF b.k = "inf" THEN NaN
                              ELSE Inf(a.n * (IF b.n < 0 THEN -1 ELSE 1)))
    ELSE IF b.k = "inf" THEN Num(0)
    ELSE IF b.n = 0 THEN (IF a.n = 0 THEN NaN ELSE Inf(Sign(a.n)))
    ELSE Rat(a.n * b.d, a.d * b.n)

Leq(a, b) == a.k = "num" /\ b.k = "num" /\ a.n * b.d <= b.n * a.d

Lt(a, b) == a.k = "num" /\ b.k = "num" /\ a.n * b.d < b.n * a.d

RECURSIVE ISqrtFrom(_, _, _)
\* the largest m with m*m*d <= n, searched upwards from m
ISqrtFrom(m, n, d) == IF (m + 1) * (m + 1) * d <= n THEN ISqrtFrom(m + 1, n, d) ELSE m

\* np.sqrt: NaN for NaN and for negatives
Sqrt(a) ==
    IF a.k = "nan" THEN NaN
    ELSE IF a.k = "inf" THEN (IF a.n > 0 THEN a ELSE NaN)
    ELSE IF a.n < 0 THEN NaN
    ELSE Rat(ISqrtFrom(0, a.n * SqrtScale * SqrtScale, a.d), SqrtScale)

(***************************************************************************)
(* pandas Series                                                           *)
(***************************************************************************)
Series(index, values) == [index |-> index, values |-> values]

EmptySeries == Series(<< >>, << >>)

\* elementwise arithmetic of two series on the same index
SeriesAdd(a, b) ==
    Series(a.index, [i \in 1..Len(a.index) |-> Add(a.values[i], b.values[i])])

SeriesSub(a, b) ==
    Series(a.index, [i \in 1..Len(a.index) |-> Sub(a.values[i], b.values[i])])

SeriesMul(a, b) ==
    Series(a.index, [i \in 1..Len(a.index) |-> Mul(a.values[i], b.values[i])])

SeriesDiv(a, b) ==
    Series(a.index, [i \in 1..Len(a.index) |-> Div(a.values[i], b.values[i])])

\* a series and a scalar
Scale(a, c) == Series(a.index, [i \in 1..Len(a.index) |-> Mul(a.values[i], c)])

SeriesSqrt(a) == Series(a.index, [i \in 1..Len(a.index) |-> Sqrt(a.values[i])])

RECURSIVE Flatten(_)
Flatten(ss) == IF ss = << >> THEN << >> ELSE Head(ss) \o Flatten(Tail(ss))

RECURSIVE SortedSeq(_)
\* the elements of a set of integers, ascending
SortedSeq(S) ==
    IF S = {} THEN << >>
    ELSE LET m == CHOOSE x \in S : \A y \in S : x <= y
         IN  <<m>> \o SortedSeq(S \ {m})

\* the rows from row i on that carry the label, ascending
PositionsOf(label, index, i) ==
    SortedSeq({ j \in i..Len(index) : index[j] = label })

\* Series.loc[labels]: for each label in turn, every row carrying it
Loc(s, labels) ==
    LET rows == Flatten([j \in 1..Len(labels) |-> PositionsOf(labels[j], s.index, 1)])
    IN  Series([i \in 1..Len(rows) |-> s.index[rows[i]]],
               [i \in 1..Len(rows) |-> s.values[rows[i]]])

RECURSIVE PlainSum(_, _)
PlainSum(values, i) == IF i = 0 THEN Num(0) ELSE Add(PlainSum(values, i - 1), values[i])

\* mutant of cumsum: skipna=False, a NaN cell poisons every later sum
cumsum_keepna(s) == Series(s.index, [i \in 1..Len(s.index) |-> PlainSum(s.values, i)])

\* the running sum of the cells that are not NaN
RECURSIVE RunningSum(_, _)
RunningSum(values, i) ==
    IF i = 0 THEN Num(0)
    ELSE IF IsNaN(values[i]) THEN RunningSum(values, i - 1)
    ELSE Add(RunningSum(values, i - 1), values[i])

\* Series.cumsum(): skipna=True, a NaN cell stays NaN and is left out of the sum
cumsum(s) ==
    Series(s.index, [i \in 1..Len(s.index) |->
                       IF IsNaN(s.values[i]) THEN NaN ELSE RunningSum(s.values, i)])

\* mutant of concat: only the last day's series is kept
concat_last_only(ss) == ss[Len(ss)]

\* pd.concat of a sequence of series
concat(ss) ==
    Series(Flatten([i \in 1..Len(ss) |-> ss[i].index]),
           Flatten([i \in 1..Len(ss) |-> ss[i].values]))

HasDuplicates(index) ==
    \E i, j \in 1..Len(index) : i < j /\ index[i] = index[j]

\* Series.reindex(index), as the DataFrame constructor applies it to a column
Reindex(s, index) ==
    IF s.index = index THEN [raised |-> "", val |-> s]
    ELSE IF HasDuplicates(s.index) THEN [raised |-> "ValueError", val |-> EmptySeries]
    ELSE [raised |-> "",
          val |-> Series(index,
                    [i \in 1..Len(index) |->
                       IF \E j \in 1..Len(s.index) : s.index[j] = index[i]
                       THEN s.values[CHOOSE j \in 1..Len(s.index) : s.index[j] = index[i]]
                       ELSE NaN])]

(***************************************************************************)
(* Frames                                                                  *)
(***************************************************************************)
NoAttrs == [has_y_limits |-> FALSE, y_limits |-> <<NaN, NaN>>]

\* a DataFrame of candles; a column that is not in `columns` holds no cells
Frame(columns, index, high, low, close, volume) ==
    [columns |-> columns, index |-> index,
     high |-> IF "high" \in columns THEN high ELSE << >>,
     low |-> IF "low" \in columns THEN low ELSE << >>,
     close |-> IF "close" \in columns THEN close ELSE << >>,
     volume |-> IF "volume" \in columns THEN volume ELSE << >>,
     attrs |-> NoAttrs]

\* the result of a call: raised = "" when it returned val
Returned(v) == [raised |-> "", val |-> v]

Raised(e) == [raised |-> e, val |-> << >>]

\* DatetimeIndex.date of one timestamp
DateOf(ts) == ts \div TicksPerDay

(***************************************************************************)
(* IndicatorCalculator.calculate_vwap                                      *)
(***************************************************************************)
\* mutant of typical_price: the close is left out, (high + low) / 2
typical_price_hl2(d) ==
    Series(d.index, [i \in 1..Len(d.index) |-> Div(Add(d.high[i], d.low[i]), Num(2))])

\* typical_price = (df['high'] + df['low'] + df['close']) / 3
typical_price(d) ==
    Series(d.index, [i \in 1..Len(d.index) |->
                       Div(Add(Add(d.high[i], d.low[i]), d.close[i]), Num(3))])

\* df['volume'], or a weight of 1 per candle when there is no volume column
volume_of(d) ==
    IF "volume" \in d.columns THEN Series(d.index, d.volume)
    ELSE Series(d.index, [i \in 1..Len(d.index) |-> Num(1)])

\* mutant of groupby_date: no daily reset, the whole series is one group
groupby_nothing(d) == IF Len(d.index) = 0 THEN << >> ELSE << d.index >>

\* df_with_date.groupby('date'): the index of each group, the groups ordered
\* by date and the rows of a group in their order in df
groupby_date(d) ==
    LET keys == SortedSeq({DateOf(d.index[i]) : i \in 1..Len(d.index)})
    IN  [g \in 1..Len(keys) |->
           LET rows == PositionsOf(keys[g], [i \in 1..Len(d.index) |-> DateOf(d.index[i])], 1)
           IN  [i \in 1..Len(rows) |-> d.index[rows[i]]]]

\* the body of the loop over the days: the three series of one group
group_bands(tp, volume, group_index, num_std) ==
    LET group_tp == Loc(tp, group_index)
        group_vol == Loc(volume, group_index)
        cum_vol == cumsum(group_vol)
        cum_tp_vol == cumsum(SeriesMul(group_tp, group_vol))
        group_vwap == SeriesDiv(cum_tp_vol, cum_vol)
        diff == SeriesSub(group_tp, group_vwap)
        squared_diff == SeriesMul(diff, diff)
        cum_squared_diff == cumsum(SeriesMul(squared_diff, group_vol))
        variance == SeriesDiv(cum_squared_diff, cum_vol)
        std_dev == SeriesSqrt(variance)
    IN  [vwap |-> group_vwap,
         upper |-> SeriesAdd(group_vwap, Scale(std_dev, num_std)),
         lower |-> SeriesSub(group_vwap, Scale(std_dev, num_std))]

calculate_vwap(d, num_std) ==
    IF ~({"high", "low", "close"} \subseteq d.columns) THEN Raised("KeyError")
    ELSE
    LET tp == typical_price(d)
        volume == volume_of(d)
        groups == groupby_date(d)
        bands == [g \in 1..Len(groups) |-> group_bands(tp, volume, groups[g], num_std)]
    IN  IF Len(groups) = 0 THEN Raised("ValueError")   \* pd.concat of no objects
        ELSE
        LET vwap == Reindex(concat([g \in 1..Len(groups) |-> bands[g].vwap]), d.index)
            upper == Reindex(concat([g \in 1..Len(groups) |-> bands[g].upper]), d.index)
            lower == Reindex(concat([g \in 1..Len(groups) |-> bands[g].lower]), d.index)
        IN  IF vwap.raised # "" THEN Raised(vwap.raised)
            ELSE Returned([index |-> d.index, vwap |-> vwap.val.values,
                           upper |-> upper.val.values, lower |-> lower.val.values])

(***************************************************************************)
(* IndicatorCalculator.calculate_bollinger_bands                           *)
(***************************************************************************)
\* the rows of the window of size window that ends at row i
WindowRows(i, window) == { j \in 1..i : j > i - window }

RECURSIVE SumCells(_, _)
\* the sum of the cells of values at the rows S that are not NaN
SumCells(values, S) ==
    IF S = {} THEN Num(0)
    ELSE LET j == CHOOSE y \in S : TRUE
         IN  IF IsNaN(values[j]) THEN SumCells(values, S \ {j})
             ELSE Add(values[j], SumCells(values, S \ {j}))

\* the number of observations of a window
Nobs(values, S) == Cardinality({ j \in S : ~IsNaN(values[j]) })

\* mutant of window_mean: min_periods=1, a partial window has a mean
window_mean_partial(values, i, window) ==
    LET S == WindowRows(i, window)
    IN  IF Nobs(values, S) > 0
        THEN Div(SumCells(values, S), Num(Nobs(values, S))) ELSE NaN

\* one cell of close.rolling(window).mean(): min_periods is the window size
window_mean(values, i, window) ==
    LET S == WindowRows(i, window)
        nobs == Nobs(values, S)
    IN  IF nobs >= window /\ nobs > 0 THEN Div(SumCells(values, S), Num(nobs)) ELSE NaN

\* the sum over the window of the squared deviations from the window's mean
SquaredDeviations(values, S) ==
    LET mean == Div(SumCells(values, S), Num(Nobs(values, S)))
    IN  SumCells([j \in 1..Len(values) |->
                    Mul(Sub(values[j], mean), Sub(values[j], mean))], S)

\* mutant of window_std: ddof=0, the population standard deviation
window_std_population(values, i, window) ==
    LET S == WindowRows(i, window)
        nobs == Nobs(values, S)
    IN  IF nobs >= window /\ nobs > 0
        THEN Sqrt(Div(SquaredDeviations(values, S), Num(nobs))) ELSE NaN

\* mutant of window_std: ddof=2, NaN unless nobs > 2
window_std_ddof2(values, i, window) ==
    LET S == WindowRows(i, window)
        nobs == Nobs(values, S)
    IN  IF nobs >= window /\ nobs > 2
        THEN Sqrt(Div(SquaredDeviations(values, S), Num(nobs - 2))) ELSE NaN

\* one cell of close.rolling(window).std(): ddof=1, NaN unless nobs > 1
window_std(values, i, window) ==
    LET S == WindowRows(i, window)
        nobs == Nobs(values, S)
    IN  IF nobs >= window /\ nobs > 1
        THEN Sqrt(Div(SquaredDeviations(values, S), Num(nobs - 1))) ELSE NaN

calculate_bollinger_bands(d, window, num_std) ==
    IF "close" \notin d.columns THEN Raised("KeyError")
    ELSE IF window < 0 THEN Raised("ValueError")   \* window must be an integer 0 or greater
    ELSE
    LET close == d.close
        ma == Series(d.index, [i \in 1..Len(close) |-> window_mean(close, i, window)])
        std == Series(d.index, [i \in 1..Len(close) |-> window_std(close, i, window)])
        upper == SeriesAdd(ma, Scale(std, num_std))
        lower == SeriesSub(ma, Scale(std, num_std))
    IN  Returned([index |-> d.index, ma |-> ma.values,
                  upper |-> upper.values, lower |-> lower.values])

(***************************************************************************)
(* IndicatorCalculator.calculate_indicators                                *)
(***************************************************************************)
DefaultBbWindow == 20

DefaultBbStd == 2

DefaultVwapStd == 2

\* a strategy_params dict: the keys it holds and their values
StrategyParams(keys, bb_window, bb_std, vwap_std) ==
    [keys |-> keys,
     bb_window |-> IF "bb_window" \in keys THEN bb_window ELSE 0,
     bb_std |-> IF "bb_std" \in keys THEN bb_std ELSE 0,
     vwap_std |-> IF "vwap_std" \in keys THEN vwap_std ELSE 0]

\* strategy_params.get(key, default)
Get(params, key, default) ==
    IF key \in params.keys THEN params[key] ELSE default

\* the empty dict returned on failure
NoIndicators == [keys |-> {}, bb |-> << >>, vwap |-> << >>]

\* mutant of calculate_indicators: a failure of calculate_vwap returns the
\* dict as filled so far
calculate_indicators_partial(d, strategy_params) ==
    LET bb_window == Get(strategy_params, "bb_window", DefaultBbWindow)
        bb_std == Get(strategy_params, "bb_std", DefaultBbStd)
        bb == calculate_bollinger_bands(d, bb_window, Num(bb_std))
        vwap_std == Get(strategy_params, "vwap_std", DefaultVwapStd)
        vwap == calculate_vwap(d, Num(vwap_std))
    IN  IF bb.raised # "" THEN Returned(NoIndicators)
        ELSE IF vwap.raised # ""
        THEN Returned([keys |-> {"bb"}, bb |-> bb.val, vwap |-> << >>])
        ELSE Returned([keys |-> {"bb", "vwap"}, bb |-> bb.val, vwap |-> vwap.val])

calculate_indicators(d, strategy_params) ==
    LET bb_window == Get(strategy_params, "bb_window", DefaultBbWindow)
        bb_std == Get(strategy_params, "bb_std", DefaultBbStd)
        bb == calculate_bollinger_bands(d, bb_window, Num(bb_std))
        vwap_std == Get(strategy_params, "vwap_std", DefaultVwapStd)
        vwap == calculate_vwap(d, Num(vwap_std))
    IN  IF bb.raised # "" THEN Returned(NoIndicators)
        ELSE IF vwap.raised # "" THEN Returned(NoIndicators)
        ELSE Returned([keys |-> {"bb", "vwap"}, bb |-> bb.val, vwap |-> vwap.val])

(***************************************************************************)
(* ChartRenderer._prepare_chart_data                                       *)
(***************************************************************************)
candles_to_show == 100

\* the object after ChartRenderer(): its attributes by name
NewChartRenderer ==
    [candles_to_show |-> candles_to_show, figure_size |-> <<12, 8>>, dpi |-> 100]

\* Python's min(a, b) and max(a, b): the first argument unless the second
\* compares strictly below (above) it
PyMin(a, b) == IF Lt(b, a) THEN b ELSE a

PyMax(a, b) == IF Lt(a, b) THEN b ELSE a

\* the lesser (greater) of two cells, a NaN cell left out
CellMin(a, b) == IF IsNaN(a) THEN b ELSE IF IsNaN(b) \/ Leq(a, b) THEN a ELSE b

CellMax(a, b) == IF IsNaN(a) THEN b ELSE IF IsNaN(b) \/ Leq(b, a) THEN a ELSE b

RECURSIVE RangeMin(_, _, _)
\* the least cell of rows lo..hi that is not NaN, by halving the rows
RangeMin(values, lo, hi) ==
    IF lo > hi THEN NaN
    ELSE IF lo = hi THEN values[lo]
    ELSE LET mid == (lo + hi) \div 2
         IN  CellMin(RangeMin(values, lo, mid), RangeMin(values, mid + 1, hi))

RECURSIVE RangeMax(_, _, _)
RangeMax(values, lo, hi) ==
    IF lo > hi THEN NaN
    ELSE IF lo = hi THEN values[lo]
    ELSE LET mid == (lo + hi) \div 2
         IN  CellMax(RangeMax(values, lo, mid), RangeMax(values, mid + 1, hi))

\* DataFrame.min() and .max() of one column: NaN cells are skipped
ColumnMin(values) == RangeMin(values, 1, Len(values))

ColumnMax(values) == RangeMax(values, 1, Len(values))

\* mutant of TailOf: data.head(n), the first count cells
HeadOf(seq, count) == IF Len(seq) <= count THEN seq ELSE SubSeq(seq, 1, count)

\* the last count cells of a column
TailOf(seq, count) ==
    IF Len(seq) <= count THEN seq ELSE SubSeq(seq, Len(seq) - count + 1, Len(seq))

\* data.tail(n).copy()
tail(data, count) ==
    [data EXCEPT !.index = TailOf(data.index, count),
                 !.high = TailOf(data.high, count),
                 !.low = TailOf(data.low, count),
                 !.close = TailOf(data.close, count),
                 !.volume = TailOf(data.volume, count)]

\* a signal_data argument: None, or a dict with the keys it holds
NoSignal == [is_none |-> TRUE, keys |-> {}, entry_price |-> 0, stop_loss |-> 0, take_profit |-> 0]

SignalData(keys, entry_price, stop_loss, take_profit) ==
    [is_none |-> FALSE, keys |-> keys,
     entry_price |-> IF "entry_price" \in keys THEN entry_price ELSE 0,
     stop_loss |-> IF "stop_loss" \in keys THEN stop_loss ELSE 0,
     take_profit |-> IF "take_profit" \in keys THEN take_profit ELSE 0]

\* signal_data.get(key, 0) behind `if signal_data:` (None and {} are falsy)
Level(signal_data, key) ==
    IF signal_data.is_none \/ signal_data.keys = {} THEN 0
    ELSE IF key \in signal_data.keys THEN signal_data[key] ELSE 0

\* mutant of all_levels_positive: any one positive level opens the branch
any_level_positive(entry_price, stop_loss, take_profit) ==
    entry_price > 0 \/ stop_loss > 0 \/ take_profit > 0

\* if entry_price > 0 and stop_loss > 0 and take_profit > 0
all_levels_positive(entry_price, stop_loss, take_profit) ==
    entry_price > 0 /\ stop_loss > 0 /\ take_profit > 0

\* mutant of y_limits_of: the padding is left out
y_limits_unpadded(plot_data, entry_price, stop_loss, take_profit) ==
    LET signal_min == PyMin(PyMin(Num(entry_price), Num(stop_loss)), Num(take_profit))
        signal_max == PyMax(PyMax(Num(entry_price), Num(stop_loss)), Num(take_profit))
    IN  << PyMin(ColumnMin(plot_data.low), signal_min),
           PyMax(ColumnMax(plot_data.high), signal_max) >>

\* the y_limits stored when all three levels are positive
y_limits_of(plot_data, entry_price, stop_loss, take_profit) ==
    LET signal_min == PyMin(PyMin(Num(entry_price), Num(stop_loss)), Num(take_profit))
        signal_max == PyMax(PyMax(Num(entry_price), Num(stop_loss)), Num(take_profit))
        data_min == ColumnMin(plot_data.low)
        data_max == ColumnMax(plot_data.high)
        chart_min == PyMin(data_min, signal_min)
        chart_max == PyMax(data_max, signal_max)
        price_range == Sub(chart_max, chart_min)
        padding == Mul(price_range, Rat(5, 100))
    IN  << Sub(chart_min, padding), Add(chart_max, padding) >>

_prepare_chart_data(data, signal_data) ==
    LET plot_data == tail(data, candles_to_show)
        entry_price == Level(signal_data, "entry_price")
        stop_loss == Level(signal_data, "stop_loss")
        take_profit == Level(signal_data, "take_profit")
    IN  IF all_levels_positive(entry_price, stop_loss, take_profit)
        THEN IF ~({"low", "high"} \subseteq data.columns) THEN Raised("KeyError")
             ELSE Returned([plot_data EXCEPT
                              !.attrs = [has_y_limits |-> TRUE,
                                         y_limits |-> y_limits_of(plot_data, entry_price,
                                                                  stop_loss, take_profit)]])
        ELSE Returned(plot_data)

\* the vertical range of the chart: the stored y_limits when there are any
\* (axes[0].set_ylim), else the renderer scales to the candles it draws
vertical_range(plot_data) ==
    IF plot_data.attrs.has_y_limits THEN plot_data.attrs.y_limits
    ELSE << ColumnMin(plot_data.low),
            ColumnMax(plot_data.high) >>

(***************************************************************************)
(* ChartRenderer.generate_chart                                            *)
(*                                                                         *)
(* The PNG is modelled by what is drawn: the candles of plot_data, the     *)
(* indicator frames whose upper and lower columns become plot lines, and   *)
(* the signal levels drawn as horizontal lines.  mplfinance is taken to    *)
(* draw whatever it is given.                                              *)
(***************************************************************************)
\* return None
NoChart == [is_none |-> TRUE, plot_data |-> << >>, indicators |-> NoIndicators, lines |-> {}]

\* the signal levels drawn as horizontal lines
signal_lines(signal_data) ==
    { key \in {"entry_price", "stop_loss", "take_profit"} : Level(signal_data, key) > 0 }

\* mutant of generate_chart: the indicators are computed on the whole series
\* and cut to the display window afterwards
generate_chart_full_series(available, data, signal_data, strategy_params) ==
    IF ~available THEN NoChart
    ELSE
    LET prepared == _prepare_chart_data(data, signal_data)
    IN  IF prepared.raised # "" THEN NoChart
        ELSE
        LET plot_data == prepared.val
            indicators == calculate_indicators(data, strategy_params).val
        IN  IF indicators.keys = {} THEN NoChart
            ELSE [is_none |-> FALSE, plot_data |-> plot_data,
                  indicators |->
                      [keys |-> indicators.keys,
                       bb |-> [c \in DOMAIN indicators.bb |->
                                 TailOf(indicators.bb[c], candles_to_show)],
                       vwap |-> [c \in DOMAIN indicators.vwap |->
                                   TailOf(indicators.vwap[c], candles_to_show)]],
                  lines |-> signal_lines(signal_data)]

\* the chart drawn from plot_data and its indicators; no chart when the
\* indicators dict is empty
draw(plot_data, indicators, signal_data) ==
    IF indicators.keys = {} THEN NoChart
    ELSE [is_none |-> FALSE, plot_data |-> plot_data, indicators |-> indicators,
          lines |-> signal_lines(signal_data)]

\* the try block from the result of _prepare_chart_data on: any exception
\* returns None
render(prepared, signal_data, strategy_params) ==
    IF prepared.raised # "" THEN NoChart
    ELSE draw(prepared.val, calculate_indicators(prepared.val, strategy_params).val,
              signal_data)

\* available is MPLFINANCE_AVAILABLE
generate_chart(available, data, signal_data, strategy_params) ==
    IF ~available THEN NoChart
    ELSE render(_prepare_chart_data(data, signal_data), signal_data, strategy_params)

(***************************************************************************)
(* The objects the operations write                                        *)
(*                                                                         *)
(* A heap is a sequence of frames and an object is a position in it; the   *)
(* caller's frame is object 1.  An operation is followed through the       *)
(* statements that create a frame object or assign to one; obj is the pair *)
(* [heap, ref] of the heap and the object a statement yields.              *)
(***************************************************************************)
Object(heap, ref) == [heap |-> heap, ref |-> ref]

\* the frame of an object
FrameOf(obj) == obj.heap[obj.ref]

\* mutant of copy: no copy is taken, the name is bound to the object itself
copy_alias(obj) == obj

\* DataFrame.copy(): a new object with the same content
copy(obj) == Object(Append(obj.heap, FrameOf(obj)), Len(obj.heap) + 1)

\* DataFrame.tail(count): a new object holding the last rows
tail_object(obj, count) ==
    Object(Append(obj.heap, tail(FrameOf(obj), count)), Len(obj.heap) + 1)

\* frame[name] = ...: the object gets a column
set_column(obj, name) ==
    Object([obj.heap EXCEPT ![obj.ref].columns = @ \cup {name}], obj.ref)

\* frame.attrs['y_limits'] = limits
set_y_limits(obj, limits) ==
    Object([obj.heap EXCEPT ![obj.ref].attrs = [has_y_limits |-> TRUE, y_limits |-> limits]],
           obj.ref)

\* the branch of _prepare_chart_data that stores the limits on plot_data; it
\* raises KeyError before the assignment when low or high is missing
store_y_limits(plot_data, entry_price, stop_loss, take_profit) ==
    IF /\ all_levels_positive(entry_price, stop_loss, take_profit)
       /\ {"low", "high"} \subseteq FrameOf(plot_data).columns
    THEN set_y_limits(plot_data, y_limits_of(FrameOf(plot_data), entry_price,
                                             stop_loss, take_profit))
    ELSE plot_data

\* _prepare_chart_data on the object data: plot_data = data.tail(n).copy()
prepare_chart_data_writes(data, signal_data) ==
    store_y_limits(copy(tail_object(data, candles_to_show)),
                   Level(signal_data, "entry_price"), Level(signal_data, "stop_loss"),
                   Level(signal_data, "take_profit"))

\* calculate_vwap on the object df: df_with_date = df.copy() gets the date
\* column, after the typical price has been read
calculate_vwap_writes(d) ==
    IF {"high", "low", "close"} \subseteq FrameOf(d).columns
    THEN set_column(copy(d), "date") ELSE d

\* calculate_bollinger_bands reads df['close'] and writes no frame
calculate_bollinger_bands_writes(d) == d

\* calculate_indicators: the band, then the VWAP unless the band raised
calculate_indicators_writes(d, bb) ==
    IF bb.raised # "" THEN calculate_bollinger_bands_writes(d)
    ELSE calculate_vwap_writes(calculate_bollinger_bands_writes(d))

(***************************************************************************)
(* calculate_indicators statement by statement on the shared object        *)
(*                                                                         *)
(* A step is given the object (self) and yields the object after it and    *)
(* the result of the call it makes.                                        *)
(***************************************************************************)
Step(self, result) == [self |-> self, result |-> result]

\* mutant of bollinger_step: the band is memoised on the object and reused
\* by every later invocation
bollinger_step_memo(self, d, strategy_params) ==
    IF "bb" \in DOMAIN self THEN Step(self, self.bb)
    ELSE LET bb == calculate_bollinger_bands(
                       d, Get(strategy_params, "bb_window", DefaultBbWindow),
                       Num(Get(strategy_params, "bb_std", DefaultBbStd)))
         IN  Step([n \in DOMAIN self \cup {"bb"} |-> IF n = "bb" THEN bb ELSE self[n]],
                  bb)

\* bb = self.calculate_bollinger_bands(df, bb_window, bb_std)
bollinger_step(self, d, strategy_params) ==
    Step(self, calculate_bollinger_bands(
                   d, Get(strategy_params, "bb_window", DefaultBbWindow),
                   Num(Get(strategy_params, "bb_std", DefaultBbStd))))

\* vwap = self.calculate_vwap(df, vwap_std)
vwap_step(self, d, strategy_params) ==
    Step(self, calculate_vwap(d, Num(Get(strategy_params, "vwap_std", DefaultVwapStd))))

(***************************************************************************)
(* api_server: POST /chart/generate and POST /chart/generate/image         *)
(*                                                                         *)
(* request.data is a frame whose index holds the timestamp column, in the  *)
(* order posted.  An optional field of the request that was left out is    *)
(* None.  A response is its HTTP status, the success flag of ChartResponse *)
(* and the chart whose PNG it carries.                                     *)
(***************************************************************************)
\* the value of an Optional field that the request leaves out
None == [is_none |-> TRUE]

\* class SignalData: the three levels are required fields
RequestSignal(entry_price, stop_loss, take_profit) ==
    [is_none |-> FALSE, entry_price |-> entry_price,
     stop_loss |-> stop_loss, take_profit |-> take_profit]

\* class StrategyParams: every field is set, by the request or by default
RequestStrategy(bb_window, bb_std, vwap_std) ==
    [is_none |-> FALSE, bb_window |-> bb_window, bb_std |-> bb_std, vwap_std |-> vwap_std]

required_columns == {"timestamp", "open", "high", "low", "close"}

\* the rows of a column in the given order
Pick(column, rows) ==
    IF column = << >> THEN << >> ELSE [i \in 1..Len(rows) |-> column[rows[i]]]

\* df.set_index('timestamp') and df.sort_index(): the rows by ascending
\* timestamp
sort_index(data) ==
    LET stamps == SortedSeq({ data.index[i] : i \in 1..Len(data.index) })
        rows == Flatten([k \in 1..Len(stamps) |-> PositionsOf(stamps[k], data.index, 1)])
    IN  [columns |-> data.columns \ {"timestamp"},
         index |-> Pick(data.index, rows),
         high |-> Pick(data.high, rows),
         low |-> Pick(data.low, rows),
         close |-> Pick(data.close, rows),
         volume |-> Pick(data.volume, rows),
         attrs |-> data.attrs]

HttpError(status) == [status |-> status, success |-> FALSE, chart |-> NoChart]

HttpOk(success, chart) == [status |-> 200, success |-> success, chart |-> chart]

\* the body shared by the two endpoints up to the call of generate_chart:
\* the response of a failure, or the chart (None included) of generate_chart
render_request(available, data, signal_data, strategy_params) ==
    IF ~(required_columns \subseteq data.columns)
    THEN [failed |-> TRUE, response |-> HttpError(400), chart |-> NoChart]
    ELSE
    LET sorted == sort_index(data)
    IN  IF signal_data.is_none      \* request.signal_data.entry_price: AttributeError
        THEN [failed |-> TRUE, response |-> HttpError(500), chart |-> NoChart]
        ELSE IF strategy_params.is_none  \* request.strategy_params.bb_window
        THEN [failed |-> TRUE, response |-> HttpError(500), chart |-> NoChart]
        ELSE
        LET signal_dict == SignalData({"entry_price", "stop_loss", "take_profit"},
                                      signal_data.entry_price, signal_data.stop_loss,
                                      signal_data.take_profit)
            strategy_dict == StrategyParams({"bb_window", "bb_std", "vwap_std"},
                                            strategy_params.bb_window,
                                            strategy_params.bb_std,
                                            strategy_params.vwap_std)
        IN  [failed |-> FALSE, response |-> HttpError(500),
             chart |-> generate_chart(available, sorted, signal_dict, strategy_dict)]

\* the end of POST /chart/generate: no chart is answered with success=False
chart_response(rendered) ==
    IF rendered.failed THEN rendered.response
    ELSE IF rendered.chart.is_none THEN HttpOk(FALSE, NoChart)
    ELSE HttpOk(TRUE, rendered.chart)

generate_chart_endpoint(available, data, signal_data, strategy_params) ==
    chart_response(render_request(available, data, signal_data, strategy_params))

\* the end of POST /chart/generate/image: no chart is answered with status 500
image_response(rendered) ==
    IF rendered.failed THEN rendered.response
    ELSE IF rendered.chart.is_none THEN HttpError(500)
    ELSE HttpOk(TRUE, rendered.chart)

generate_chart_image(available, data, signal_data, strategy_params) ==
    image_response(render_request(available, data, signal_data, strategy_params))

(***************************************************************************)
(* The calls and their inputs                                              *)
(***************************************************************************)
NoArgs == [op |-> "none"]

NoResult == Returned(<< >>)

Cells(ints) == [i \in 1..Len(ints) |-> Num(ints[i])]

\* a series of len candles at consecutive ticks from start
Candles(len, start, bars, hasVolume, vols) ==
    Frame(IF hasVolume THEN {"high", "low", "close", "volume"}
                       ELSE {"high", "low", "close"},
          [i \in 1..len |-> start + i - 1],
          [i \in 1..len |-> Num(bars[i][1])],
          [i \in 1..len |-> Num(bars[i][2])],
          [i \in 1..len |-> Num(bars[i][3])],
          Cells(vols))

\* timestamp-ascending, duplicate-free series with and without a volume column
CandleFrames ==
    UNION { UNION { { Candles(len, start, bars, TRUE, vols) :
                        bars \in [1..len -> Bars], vols \in [1..len -> Volumes] }
                    \cup { Candles(len, start, bars, FALSE, << >>) :
                             bars \in [1..len -> Bars] } :
                    start \in 0..MaxStart } : len \in 0..MaxLen }

InitVwap ==
    /\ df \in CandleFrames
    /\ args = NoArgs
    /\ pc = "start"
    /\ out = NoResult
    /\ chart_renderer = NewChartRenderer

\* a caller invokes calculate_vwap(df, num_std)
CalculateVwap ==
    /\ pc = "start"
    /\ \E k \in NumStds :
         /\ args' = [op |-> "calculate_vwap", num_std |-> k]
         /\ out' = calculate_vwap(df, Num(k))
    /\ pc' = "done"
    /\ UNCHANGED <<df, chart_renderer>>

\* the closes tried by the moving-average band
Closes == {10, 11, 13, 14}

\* series for the moving-average band: only the close varies
CloseFrames ==
    UNION { UNION { { Candles(len, start, [i \in 1..len |-> <<14, 10, closes[i]>>],
                              FALSE, << >>) : closes \in [1..len -> Closes] } :
                    start \in 0..MaxStart } : len \in 0..MaxLen }

InitBB ==
    /\ df \in CloseFrames
    /\ args = NoArgs
    /\ pc = "start"
    /\ out = NoResult
    /\ chart_renderer = NewChartRenderer

\* a caller invokes calculate_bollinger_bands(df, window, num_std)
CalculateBollingerBands ==
    /\ pc = "start"
    /\ \E w \in (-1)..MaxWindow, k \in NumStds :
         /\ args' = [op |-> "calculate_bollinger_bands", window |-> w, num_std |-> k]
         /\ out' = calculate_bollinger_bands(df, w, Num(k))
    /\ pc' = "done"
    /\ UNCHANGED <<df, chart_renderer>>

NextBB == CalculateBollingerBands

SpecBB == InitBB /\ [][NextBB]_vars

\* series for calculate_indicators: up to MaxIndLen candles from tick 0
IndicatorFrames ==
    UNION { { Candles(len, 0, bars, TRUE, vols) :
                bars \in [1..len -> Bars], vols \in [1..len -> Volumes] }
            \cup { Candles(len, 0, bars, FALSE, << >>) : bars \in [1..len -> Bars] } :
            len \in 0..MaxIndLen }

\* the strategy_params dicts tried: every key present or absent
StrategyParamSets ==
    { StrategyParams(keys, w, k, k) :
        keys \in SUBSET {"bb_window", "bb_std", "vwap_std"},
        w \in (-1)..MaxWindow, k \in {1} }

InitInd ==
    /\ df \in IndicatorFrames
    /\ args = NoArgs
    /\ pc = "start"
    /\ out = NoResult
    /\ chart_renderer = NewChartRenderer

\* a caller invokes calculate_indicators(df, strategy_params)
CalculateIndicators ==
    /\ pc = "start"
    /\ \E params \in StrategyParamSets :
         /\ args' = [op |-> "calculate_indicators", strategy_params |-> params]
         /\ out' = calculate_indicators(df, params)
    /\ pc' = "done"
    /\ UNCHANGED <<df, chart_renderer>>

NextInd == CalculateIndicators

SpecInd == InitInd /\ [][NextInd]_vars

\* the candle put at row i of a series of arbitrary timestamps: the closes
\* alternate and the typical price is 11 at every row, which keeps the sums
\* over the repeated rows of a duplicated timestamp small
RowBar(i) == IF i % 2 = 1 THEN <<12, 10, 11>> ELSE <<13, 8, 12>>

RowVolume(i) == IF i % 2 = 1 THEN 1 ELSE 3

\* the column sets of the series of arbitrary timestamps: complete with and
\* without volume, and one of high, low, close missing
ColumnSets ==
    { {"high", "low", "close", "volume"}, {"high", "low", "close"},
      {"low", "close", "volume"}, {"high", "close"}, {"high", "low", "volume"} }

\* a series whose index is any sequence of timestamps: ascending, out of
\* order or with duplicates
AnySeries(index, columns) ==
    Frame(columns, index,
          [i \in 1..Len(index) |-> Num(RowBar(i)[1])],
          [i \in 1..Len(index) |-> Num(RowBar(i)[2])],
          [i \in 1..Len(index) |-> Num(RowBar(i)[3])],
          [i \in 1..Len(index) |-> Num(RowVolume(i))])

AnyFrames ==
    UNION { { AnySeries(index, columns) :
                index \in [1..len -> 0..MaxTick], columns \in ColumnSets } :
            len \in 0..MaxAnyLen }

\* the strategy_params given with them: no key, and a window of two candles
AnyParams ==
    { StrategyParams({}, 0, 0, 0),
      StrategyParams({"bb_window", "bb_std", "vwap_std"}, 2, 1, 1) }

InitAny ==
    /\ df \in AnyFrames
    /\ args = NoArgs
    /\ pc = "start"
    /\ out = NoResult
    /\ chart_renderer = NewChartRenderer

\* a caller invokes calculate_indicators(df, strategy_params) on a frame it
\* built itself
CalculateIndicatorsAny ==
    /\ pc = "start"
    /\ \E params \in AnyParams :
         /\ args' = [op |-> "calculate_indicators", strategy_params |-> params]
         /\ out' = calculate_indicators(df, params)
    /\ pc' = "done"
    /\ UNCHANGED <<df, chart_renderer>>

NextAny == CalculateIndicatorsAny

SpecAny == InitAny /\ [][NextAny]_vars

\* (high, low, close) of the candles of the display window specification:
\* odd rows, even rows, and one outlier row beyond every signal level but two
OddBar == <<10530, 10500, 10510>>

EvenBar == <<10550, 10520, 10540>>

OutlierBar == <<10800, 10400, 10600>>

\* where the outlier is put in a series of n candles: nowhere, first, last,
\* and on either side of the start of the display window
OutlierRows(n) ==
    {0, 1, n} \cup ({n - candles_to_show, n - candles_to_show + 1} \cap 1..n)

\* a series of n candles at ticks 1..n with the outlier at row p
LongSeries(n, p) ==
    Candles(n, 1,
            [i \in 1..n |-> IF i = p THEN OutlierBar
                            ELSE IF i % 2 = 1 THEN OddBar ELSE EvenBar],
            FALSE, << >>)

\* the signal_data arguments tried: None, and dicts holding any of the keys
SignalDatas ==
    {NoSignal} \cup
    { SignalData(keys, e, sl, tp) :
        keys \in SUBSET {"entry_price", "stop_loss", "take_profit"},
        e \in {0, 10600}, sl \in {-10550, 10550, 10900}, tp \in {0, 10300, 10700} }

InitWindow ==
    /\ \E n \in 1..MaxSeriesLen : \E p \in OutlierRows(n) : df = LongSeries(n, p)
    /\ args = NoArgs
    /\ pc = "start"
    /\ out = NoResult
    /\ chart_renderer = NewChartRenderer

\* generate_chart invokes _prepare_chart_data(data, signal_data)
PrepareChartData ==
    /\ pc = "start"
    /\ \E signal_data \in SignalDatas :
         /\ args' = [op |-> "_prepare_chart_data", signal_data |-> signal_data]
         /\ out' = _prepare_chart_data(df, signal_data)
    /\ pc' = "done"
    /\ UNCHANGED <<df, chart_renderer>>

NextWindow == PrepareChartData

SpecWindow == InitWindow /\ [][NextWindow]_vars

\* (high, low, close) and volume of row i of the series given to
\* generate_chart; every third candle has no volume
ChartBar(i) == IF i % 2 = 1 THEN <<12, 10, 11>> ELSE <<14, 13, 13>>

ChartVolume(i) == i % 3

\* a series of n candles at ticks 0..n-1
ChartSeries(n, hasVolume) ==
    Candles(n, 0, [i \in 1..n |-> ChartBar(i)], hasVolume,
            [i \in 1..n |-> ChartVolume(i)])

\* the signal_data and strategy_params dicts given to generate_chart
ChartSignals ==
    { NoSignal,
      SignalData({"entry_price", "stop_loss", "take_profit"}, 12, 9, 15),
      SignalData({"entry_price", "stop_loss", "take_profit"}, 12, 0, 0) }

ChartParams ==
    { StrategyParams({}, 0, 0, 0),
      StrategyParams({"bb_window"}, 2, 0, 0),
      StrategyParams({"bb_window", "bb_std", "vwap_std"}, 3, 2, 1) }

InitChart ==
    /\ \E n \in (candles_to_show - 1)..(candles_to_show + MaxExtra) :
         \E hasVolume \in BOOLEAN : df = ChartSeries(n, hasVolume)
    /\ args = NoArgs
    /\ pc = "start"
    /\ out = NoResult
    /\ chart_renderer = NewChartRenderer

\* a caller invokes generate_chart(data, signal_data, strategy_params, symbol)
GenerateChart ==
    /\ pc = "start"
    /\ \E available \in BOOLEAN, signal_data \in ChartSignals, params \in ChartParams :
         /\ args' = [op |-> "generate_chart", available |-> available,
                     signal_data |-> signal_data, strategy_params |-> params]
         /\ out' = Returned(generate_chart(available, df, signal_data, params))
    /\ pc' = "done"
    /\ UNCHANGED <<df, chart_renderer>>

NextChart == GenerateChart

SpecChart == InitChart /\ [][NextChart]_vars

\* the column sets posted: complete with and without volume, and one
\* required column missing
PostedColumns ==
    { required_columns \cup {"volume"}, required_columns,
      required_columns \ {"open"}, (required_columns \ {"close"}) \cup {"volume"} }

\* request.data: up to MaxAnyLen candles of distinct timestamps in any order
PostedFrames ==
    UNION { { AnySeries(index, columns) :
                index \in { ix \in [1..len -> 0..MaxTick] : ~HasDuplicates(ix) },
                columns \in PostedColumns } :
            len \in 1..MaxAnyLen }

\* request.signal_data and request.strategy_params: left out, or given
PostedSignals == { None, RequestSignal(12, 9, 15), RequestSignal(12, 0, 0) }

PostedStrategies ==
    { None, RequestStrategy(DefaultBbWindow, DefaultBbStd, DefaultVwapStd),
      RequestStrategy(2, 1, 1) }

InitApi ==
    /\ df \in PostedFrames
    /\ args = NoArgs
    /\ pc = "start"
    /\ out = NoResult
    /\ chart_renderer = NewChartRenderer

\* a client posts a ChartRequest to /chart/generate
PostChartGenerate ==
    /\ pc = "start"
    /\ \E available \in BOOLEAN, signal_data \in PostedSignals,
          strategy_params \in PostedStrategies :
         /\ args' = [op |-> "/chart/generate", available |-> available,
                     signal_data |-> signal_data, strategy_params |-> strategy_params]
         /\ out' = Returned(generate_chart_endpoint(available, df, signal_data,
                                                    strategy_params))
    /\ pc' = "done"
    /\ UNCHANGED <<df, chart_renderer>>

\* a client posts a ChartRequest to /chart/generate/image
PostChartGenerateImage ==
    /\ pc = "start"
    /\ \E available \in BOOLEAN, signal_data \in PostedSignals,
          strategy_params \in PostedStrategies :
         /\ args' = [op |-> "/chart/generate/image", available |-> available,
                     signal_data |-> signal_data, strategy_params |-> strategy_params]
         /\ out' = Returned(generate_chart_image(available, df, signal_data,
                                                 strategy_params))
    /\ pc' = "done"
    /\ UNCHANGED <<df, chart_renderer>>

NextApi == PostChartGenerate \/ PostChartGenerateImage

SpecApi == InitApi /\ [][NextApi]_vars

\* the caller's series of the frame specification: short series with and
\* without volume, series lacking a column, and one longer than the window
CallerFrames ==
    IndicatorFrames
    \cup { AnySeries(<<0, 1>>, columns) : columns \in ColumnSets }
    \cup { ChartSeries(candles_to_show + 1, TRUE) }

InitFrame ==
    /\ df \in CallerFrames
    /\ args = NoArgs
    /\ pc = "start"
    /\ out = NoResult
    /\ chart_renderer = NewChartRenderer

\* the result of a call together with the heap it leaves
WithHeap(result, obj) ==
    [raised |-> result.raised, val |-> result.val, heap |-> obj.heap, ref |-> obj.ref]

\* the four operations on the caller's frame object: df is read back from
\* the heap after the call
CallPrepareChartData ==
    /\ pc = "start"
    /\ \E signal_data \in ChartSignals :
         /\ args' = [op |-> "_prepare_chart_data", data |-> df, signal_data |-> signal_data]
         /\ out' = WithHeap(_prepare_chart_data(df, signal_data),
                            prepare_chart_data_writes(Object(<<df>>, 1), signal_data))
    /\ df' = out'.heap[1]
    /\ UNCHANGED chart_renderer
    /\ pc' = "done"

CallCalculateVwap ==
    /\ pc = "start"
    /\ \E k \in NumStds :
         /\ args' = [op |-> "calculate_vwap", data |-> df, num_std |-> k]
         /\ out' = WithHeap(calculate_vwap(df, Num(k)),
                            calculate_vwap_writes(Object(<<df>>, 1)))
    /\ df' = out'.heap[1]
    /\ UNCHANGED chart_renderer
    /\ pc' = "done"

CallCalculateBollingerBands ==
    /\ pc = "start"
    /\ \E k \in NumStds :
         /\ args' = [op |-> "calculate_bollinger_bands", data |-> df,
                     window |-> 2, num_std |-> k]
         /\ out' = WithHeap(calculate_bollinger_bands(df, 2, Num(k)),
                            calculate_bollinger_bands_writes(Object(<<df>>, 1)))
    /\ df' = out'.heap[1]
    /\ UNCHANGED chart_renderer
    /\ pc' = "done"

CallCalculateIndicators ==
    /\ pc = "start"
    /\ \E params \in AnyParams :
         /\ args' = [op |-> "calculate_indicators", data |-> df, strategy_params |-> params]
         /\ out' = WithHeap(calculate_indicators(df, params),
                            calculate_indicators_writes(
                                Object(<<df>>, 1),
                                calculate_bollinger_bands(
                                    df, Get(params, "bb_window", DefaultBbWindow),
                                    Num(Get(params, "bb_std", DefaultBbStd)))))
    /\ df' = out'.heap[1]
    /\ UNCHANGED chart_renderer
    /\ pc' = "done"

NextFrame ==
    \/ CallPrepareChartData
    \/ CallCalculateVwap
    \/ CallCalculateBollingerBands
    \/ CallCalculateIndicators

SpecFrame == InitFrame /\ [][NextFrame]_vars

\* the invocations of calculate_indicators in flight on the shared object
Invocations == 1..MaxInvocations

\* the series they are given
SharedFrames ==
    { AnySeries(<<0, 1>>, {"high", "low", "close", "volume"}),
      AnySeries(<<0, 1, 3>>, {"high", "low", "close"}),
      AnySeries(<<0, 1>>, {"low", "close", "volume"}) }

\* in this specification df, args, pc and out hold one value per invocation
InitShared ==
    /\ df \in [Invocations -> SharedFrames]
    /\ args = [i \in Invocations |-> NoArgs]
    /\ pc = [i \in Invocations |-> "start"]
    /\ out = [i \in Invocations |-> NoIndicators]
    /\ chart_renderer = NewChartRenderer

\* invocation i is entered: indicators = {}
Enter(i) ==
    /\ pc[i] = "start"
    /\ \E params \in AnyParams :
         args' = [args EXCEPT ![i] = [op |-> "calculate_indicators",
                                      strategy_params |-> params]]
    /\ out' = [out EXCEPT ![i] = NoIndicators]
    /\ pc' = [pc EXCEPT ![i] = "bb"]
    /\ UNCHANGED <<df, chart_renderer>>

\* invocation i computes the moving-average band, or returns {} if that raises
BollingerStep(i) ==
    /\ pc[i] = "bb"
    /\ \E step \in { bollinger_step(chart_renderer, df[i], args[i].strategy_params) } :
         /\ chart_renderer' = step.self
         /\ IF step.result.raised # ""
            THEN /\ out' = [out EXCEPT ![i] = NoIndicators]
                 /\ pc' = [pc EXCEPT ![i] = "done"]
            ELSE /\ out' = [out EXCEPT ![i] = [keys |-> {"bb"}, bb |-> step.result.val,
                                               vwap |-> << >>]]
                 /\ pc' = [pc EXCEPT ![i] = "vwap"]
    /\ UNCHANGED <<df, args>>

\* invocation i computes the VWAP band and returns, {} if that raises
VwapStep(i) ==
    /\ pc[i] = "vwap"
    /\ \E step \in { vwap_step(chart_renderer, df[i], args[i].strategy_params) } :
         /\ chart_renderer' = step.self
         /\ IF step.result.raised # ""
            THEN out' = [out EXCEPT ![i] = NoIndicators]
            ELSE out' = [out EXCEPT ![i] = [keys |-> {"bb", "vwap"}, bb |-> out[i].bb,
                                            vwap |-> step.result.val]]
    /\ pc' = [pc EXCEPT ![i] = "done"]
    /\ UNCHANGED <<df, args>>

NextShared == \E i \in Invocations : Enter(i) \/ BollingerStep(i) \/ VwapStep(i)

SpecShared == InitShared /\ [][NextShared]_vars

NextVwap == CalculateVwap

SpecVwap == InitVwap /\ [][NextVwap]_vars

(***************************************************************************)
(* Claims about calculate_vwap                                             *)
(***************************************************************************)
VwapDone == pc = "done" /\ args.op = "calculate_vwap"

Rows == 1..Len(df.index)

\* the candles of row i's calendar day up to and including row i
DayPrefix(i) == { j \in 1..i : DateOf(df.index[j]) = DateOf(df.index[i]) }

\* the weight of candle j: its volume, or 1 when the series has no volume column
Weight(j) == IF "volume" \in df.columns THEN df.volume[j].n ELSE 1

\* three times the typical price of candle j
TripleTp(j) == df.high[j].n + df.low[j].n + df.close[j].n

RECURSIVE SumWeight(_)
SumWeight(S) ==
    IF S = {} THEN 0
    ELSE LET j == CHOOSE y \in S : TRUE IN Weight(j) + SumWeight(S \ {j})

RECURSIVE SumTpWeight(_)
SumTpWeight(S) ==
    IF S = {} THEN 0
    ELSE LET j == CHOOSE y \in S : TRUE
         IN  TripleTp(j) * Weight(j) + SumTpWeight(S \ {j})

CumWeight(i) == SumWeight(DayPrefix(i))

\* sum(tp_j * w_j) / sum(w_j) over the day prefix of row i
DayVwap(i) ==
    IF CumWeight(i) = 0 THEN NaN
    ELSE Rat(SumTpWeight(DayPrefix(i)), 3 * CumWeight(i))

\* C1: on an ascending series the vwap at every row is the weighted mean of
\* the typical prices of the candles of the same calendar day up to that row
\* (weight = volume, or 1 without a volume column); no earlier day
\* contributes, so the first candle of a day with positive weight has its own
\* typical price as vwap.
C1_VwapIsDailyWeightedMean ==
    (VwapDone /\ out.raised = "") =>
        \A i \in Rows :
            /\ out.val.vwap[i] = DayVwap(i)
            /\ (Weight(i) > 0 /\ \A j \in DayPrefix(i) \ {i} : Weight(j) = 0)
                   => out.val.vwap[i] = Rat(TripleTp(i), 3)

\* a second day starts after a first day that carried weight, and its first
\* weighted candle has another typical price than the running mean before it
C1_Witness ==
    /\ VwapDone /\ out.raised = ""
    /\ \E i \in Rows :
         /\ i > 1 /\ DayPrefix(i) = {i} /\ Weight(i) > 0
         /\ Weight(i - 1) > 0
         /\ out.val.vwap[i - 1] # out.val.vwap[i]
    /\ \E i \in Rows : Cardinality(DayPrefix(i)) > 1 /\ Weight(i) > 1

\* the bands of every day group, as the loop over the days computes them
BandsOfGroups ==
    LET tp == typical_price(df)
        volume == volume_of(df)
        groups == groupby_date(df)
    IN  [g \in 1..Len(groups) |-> group_bands(tp, volume, groups[g], Num(args.num_std))]

\* C6: on an ascending duplicate-free series the output has one row per input
\* candle, in input order, and the row of a candle holds the values computed
\* for that candle in its day group.
C6_OneRowPerCandleInOrder ==
    (VwapDone /\ Len(df.index) > 0) =>
        /\ out.raised = ""
        /\ out.val.index = df.index
        /\ Len(out.val.vwap) = Len(df.index)
        /\ Len(out.val.upper) = Len(df.index)
        /\ Len(out.val.lower) = Len(df.index)
        /\ LET bands == BandsOfGroups
           IN  \A i \in Rows :
                 \E g \in 1..Len(bands) :
                   \E p \in 1..Len(bands[g].vwap.index) :
                     /\ bands[g].vwap.index[p] = df.index[i]
                     /\ p = Cardinality(DayPrefix(i))
                     /\ out.val.vwap[i] = bands[g].vwap.values[p]
                     /\ out.val.upper[i] = bands[g].upper.values[p]
                     /\ out.val.lower[i] = bands[g].lower.values[p]

\* a series over several days whose rows differ
C6_Witness ==
    /\ VwapDone /\ out.raised = ""
    /\ Len(df.index) = MaxLen
    /\ \E i, j \in Rows : DateOf(df.index[i]) # DateOf(df.index[j])
    /\ \A i, j \in Rows : i # j => out.val.upper[i] # out.val.upper[j]

\* C7: vwap, upper and lower are NaN exactly at the rows whose day has no
\* cumulative volume yet; the call returns, no value is infinite, and where
\* the cumulative volume is positive all three are numbers.
C7_NoValueIffZeroVolume ==
    (VwapDone /\ Len(df.index) > 0) =>
        /\ out.raised = ""
        /\ \A i \in Rows :
             /\ CumWeight(i) = 0 =>
                  IsNaN(out.val.vwap[i]) /\ IsNaN(out.val.upper[i]) /\ IsNaN(out.val.lower[i])
             /\ CumWeight(i) > 0 =>
                  IsNum(out.val.vwap[i]) /\ IsNum(out.val.upper[i]) /\ IsNum(out.val.lower[i])

\* a day starts with zero-volume candles and then trades
C7_Witness ==
    /\ VwapDone /\ out.raised = ""
    /\ \E i \in Rows :
         /\ i > 1 /\ CumWeight(i - 1) = 0 /\ CumWeight(i) > 0
         /\ DateOf(df.index[i - 1]) = DateOf(df.index[i])
         /\ IsNaN(out.val.upper[i - 1]) /\ IsNum(out.val.upper[i])

\* every candle lies in one day, has typical price p3/3 and volume v > 0
ConstantDay(p3, v) ==
    /\ Len(df.index) > 0
    /\ "volume" \in df.columns
    /\ \A i \in Rows : /\ DateOf(df.index[i]) = DateOf(df.index[1])
                       /\ TripleTp(i) = p3
                       /\ df.volume[i].n = v

\* C9: within one day, with a constant typical price P and a constant
\* positive volume, vwap = upper = lower = P at every row, whatever num_std.
C9_ConstantDayIsFlat ==
    \A p3 \in {b[1] + b[2] + b[3] : b \in Bars}, v \in Volumes \ {0} :
        (VwapDone /\ ConstantDay(p3, v)) =>
            /\ out.raised = ""
            /\ \A i \in Rows : /\ out.val.vwap[i] = Rat(p3, 3)
                               /\ out.val.upper[i] = Rat(p3, 3)
                               /\ out.val.lower[i] = Rat(p3, 3)

\* a full day of candles of one typical price that is no whole number, with a
\* volume above one and a multiplier above zero
C9_Witness ==
    /\ VwapDone /\ out.raised = ""
    /\ args.num_std > 0
    /\ Len(df.index) = MaxLen
    /\ \E p3 \in {b[1] + b[2] + b[3] : b \in Bars} :
         /\ ConstantDay(p3, 3)
         /\ p3 % 3 # 0

(***************************************************************************)
(* Claims about calculate_bollinger_bands                                  *)
(***************************************************************************)
BBDone == pc = "done" /\ args.op = "calculate_bollinger_bands"

RECURSIVE SumClose(_)
\* the sum of the closes of the rows S
SumClose(S) ==
    IF S = {} THEN 0
    ELSE LET j == CHOOSE y \in S : TRUE IN df.close[j].n + SumClose(S \ {j})

RECURSIVE SumCloseSquared(_)
SumCloseSquared(S) ==
    IF S = {} THEN 0
    ELSE LET j == CHOOSE y \in S : TRUE
         IN  df.close[j].n * df.close[j].n + SumCloseSquared(S \ {j})

\* the w rows that end at row i
Trailing(i, w) == (i - w + 1)..i

\* C2: for a window w >= 1 the centre is NaN at the rows before the w-th and
\* the arithmetic mean of the w closes ending at the row from there on; a
\* window longer than the series gives an all-NaN band and no failure.
C2_CenterIsTrailingMean ==
    (BBDone /\ args.window >= 1) =>
        /\ out.raised = ""
        /\ Len(out.val.ma) = Len(df.index)
        /\ \A i \in Rows :
             /\ i < args.window => IsNaN(out.val.ma[i])
             /\ i >= args.window =>
                  out.val.ma[i] = Rat(SumClose(Trailing(i, args.window)), args.window)
        /\ args.window > Len(df.index) =>
             \A i \in Rows : /\ IsNaN(out.val.ma[i])
                             /\ IsNaN(out.val.upper[i])
                             /\ IsNaN(out.val.lower[i])

\* a window of several closes that differ, after rows without a full window
C2_Witness ==
    /\ BBDone /\ out.raised = ""
    /\ args.window > 1 /\ args.window < Len(df.index)
    /\ IsNaN(out.val.ma[args.window - 1])
    /\ IsNum(out.val.ma[Len(df.index)])
    /\ out.val.ma[Len(df.index)] # out.val.ma[Len(df.index) - 1]
    /\ out.val.ma[Len(df.index)].d # 1

\* a window longer than a series that is not empty
C2_WitnessLongWindow ==
    /\ BBDone /\ out.raised = ""
    /\ Len(df.index) > 0 /\ args.window > Len(df.index)

\* the band is defined at row i: centre, upper and lower are numbers
BandDefined(i) ==
    IsNum(out.val.ma[i]) /\ IsNum(out.val.upper[i]) /\ IsNum(out.val.lower[i])

\* the sample standard deviation (N-1 denominator) of the w closes ending at
\* row i, from the sums of the closes and of their squares
SampleStd(i, w) ==
    IF w < 2 THEN NaN ELSE
    Sqrt(Rat(w * SumCloseSquared(Trailing(i, w))
               - SumClose(Trailing(i, w)) * SumClose(Trailing(i, w)),
             w * (w - 1)))

\* C8: for a multiplier k >= 0, wherever the band is defined, upper - centre
\* = centre - lower = k * spread with spread the sample standard deviation of
\* the trailing window of closes; hence lower <= centre <= upper.
C8_BandIsSymmetric ==
    (BBDone /\ out.raised = "" /\ args.num_std >= 0) =>
        \A i \in Rows :
            BandDefined(i) =>
                /\ Sub(out.val.upper[i], out.val.ma[i])
                       = Mul(Num(args.num_std), SampleStd(i, args.window))
                /\ Sub(out.val.ma[i], out.val.lower[i])
                       = Mul(Num(args.num_std), SampleStd(i, args.window))
                /\ Leq(out.val.lower[i], out.val.ma[i])
                /\ Leq(out.val.ma[i], out.val.upper[i])

\* a defined band of positive width
C8_Witness ==
    /\ BBDone /\ out.raised = ""
    /\ args.num_std > 1
    /\ \E i \in Rows : /\ BandDefined(i)
                       /\ Lt(out.val.lower[i], out.val.ma[i])
                       /\ Lt(out.val.ma[i], out.val.upper[i])

\* upper and lower are both numbers at row i
EdgesDefined(i) == IsNum(out.val.upper[i]) /\ IsNum(out.val.lower[i])

\* upper and lower are both NaN at row i
EdgesUndefined(i) == IsNaN(out.val.upper[i]) /\ IsNaN(out.val.lower[i])

\* C16 as stated: for every window w >= 1, w = 1 included, upper and lower
\* are NaN at the first w - 1 rows only and are numbers at every row from
\* the w-th on.
C16_EdgesDefinedFromWindowOn ==
    (BBDone /\ out.raised = "" /\ args.window >= 1) =>
        \A i \in Rows : IF i < args.window THEN EdgesUndefined(i)
                                            ELSE EdgesDefined(i)

\* C16 amended: for every window w >= 2 upper and lower are NaN at the first
\* w - 1 rows only and are numbers at every row from the w-th on; for w = 1
\* the centre is a number at every row and upper and lower are NaN at every
\* row, the sample standard deviation of one close being 0/0.
C16_EdgesDefinedFromWindowTwoOn ==
    (BBDone /\ out.raised = "" /\ args.window >= 1) =>
        \A i \in Rows :
            IF args.window = 1
            THEN IsNum(out.val.ma[i]) /\ EdgesUndefined(i)
            ELSE IF i < args.window THEN EdgesUndefined(i)
                                    ELSE EdgesDefined(i)

\* a window of two closes on a longer series: the first row has no edges,
\* the later rows have distinct edges
C16_Witness ==
    /\ BBDone /\ out.raised = ""
    /\ args.window = 2 /\ args.num_std > 0
    /\ Len(df.index) > 2
    /\ EdgesUndefined(1)
    /\ \A i \in 2..Len(df.index) :
          EdgesDefined(i) /\ Lt(out.val.lower[i], out.val.upper[i])

(***************************************************************************)
(* Claims about calculate_indicators                                       *)
(***************************************************************************)
IndDone == pc = "done" /\ args.op = "calculate_indicators"

\* strategy_params carries a bb_window that is zero or negative
NonPositiveWindow ==
    /\ "bb_window" \in args.strategy_params.keys
    /\ args.strategy_params.bb_window <= 0

\* C10: calculate_indicators with a bb_window <= 0 returns the failure
\* result and never a band series.
C10_NonPositiveWindowRejected ==
    (IndDone /\ NonPositiveWindow) => out.val.keys = {}

\* the timestamps of df ascend strictly: in order and without duplicates
StrictlyAscending ==
    \A i \in 1..(Len(df.index) - 1) : df.index[i] < df.index[i + 1]

\* C11: calculate_indicators on a series whose timestamps do not ascend
\* strictly (out of order, or duplicated) returns the failure result and no
\* band series.
C11_UnorderedSeriesRejected ==
    (IndDone /\ ~StrictlyAscending) => out.val.keys = {}

\* calculate_indicators returned both bands, aligned with the rows of df
BothBands ==
    /\ out.val.keys = {"bb", "vwap"}
    /\ out.val.bb.index = df.index
    /\ \A c \in {"ma", "upper", "lower"} : Len(out.val.bb[c]) = Len(df.index)
    /\ out.val.vwap.index = df.index
    /\ \A c \in {"vwap", "upper", "lower"} : Len(out.val.vwap[c]) = Len(df.index)

\* C12: calculate_indicators never raises and returns either both bands,
\* each with one row per candle, or the empty failure result; a series
\* lacking a column that an indicator reads yields the failure result, also
\* when the moving-average band alone could be computed.
C12_BothBandsOrFailure ==
    IndDone =>
        /\ out.raised = ""
        /\ out.val.keys = {} \/ BothBands
        /\ ~({"high", "low", "close"} \subseteq df.columns) => out.val.keys = {}

\* a series with close but without high: the moving-average band is
\* computed, calculate_vwap raises, and nothing is returned
C12_Witness ==
    /\ IndDone
    /\ Len(df.index) > 1
    /\ "close" \in df.columns /\ "high" \notin df.columns
    /\ calculate_bollinger_bands(df, 2, Num(1)).raised = ""
    /\ out.val.keys = {}

(***************************************************************************)
(* Claims about _prepare_chart_data                                        *)
(***************************************************************************)
WindowDone == pc = "done" /\ args.op = "_prepare_chart_data"

\* the rows of the input that are displayed: the last candles_to_show
Shown == { j \in Rows : j > Len(df.index) - candles_to_show }

SetMin(S) == CHOOSE x \in S : \A y \in S : x <= y

SetMax(S) == CHOOSE x \in S : \A y \in S : x >= y

\* entry_price, stop_loss and take_profit are all supplied and positive
AllLevelsGiven ==
    /\ ~args.signal_data.is_none
    /\ {"entry_price", "stop_loss", "take_profit"} \subseteq args.signal_data.keys
    /\ args.signal_data.entry_price > 0
    /\ args.signal_data.stop_loss > 0
    /\ args.signal_data.take_profit > 0

GivenLevels ==
    {args.signal_data.entry_price, args.signal_data.stop_loss, args.signal_data.take_profit}

ShownLows == { df.low[j].n : j \in Shown }

ShownHighs == { df.high[j].n : j \in Shown }

\* C3: with all three levels supplied and positive the reported range is
\* [rangeMin - padding, rangeMax + padding], rangeMin and rangeMax the least
\* and greatest of the displayed lows and highs and the three levels,
\* padding 5% of their distance; it contains every displayed low and high
\* and the three levels.
C3_RangeWidenedAndPadded ==
    (WindowDone /\ AllLevelsGiven) =>
        LET rangeMin == SetMin(ShownLows \cup GivenLevels)
            rangeMax == SetMax(ShownHighs \cup GivenLevels)
            y_limits == out.val.attrs.y_limits
        IN  /\ out.raised = ""
            /\ out.val.attrs.has_y_limits
            /\ y_limits[1] = Rat(100 * rangeMin - 5 * (rangeMax - rangeMin), 100)
            /\ y_limits[2] = Rat(100 * rangeMax + 5 * (rangeMax - rangeMin), 100)
            /\ \A x \in ShownLows \cup ShownHighs \cup GivenLevels :
                 Leq(y_limits[1], Num(x)) /\ Leq(Num(x), y_limits[2])

\* the example of the specification: lows from 1.0500, highs to 1.0550,
\* levels 1.0600 / 1.0550 / 1.0700 give [1.0490, 1.0710]; earlier candles
\* that are not displayed reach further
C3_Witness ==
    /\ WindowDone /\ AllLevelsGiven
    /\ SetMin(ShownLows) = 10500 /\ SetMax(ShownHighs) = 10550
    /\ \E j \in Rows \ Shown : df.low[j].n < 10500 /\ df.high[j].n > 10700
    /\ args.signal_data.entry_price = 10600
    /\ args.signal_data.stop_loss = 10550
    /\ args.signal_data.take_profit = 10700
    /\ out.val.attrs.y_limits = <<Num(10490), Num(10710)>>

\* C4: without signal levels, or with one of the three absent or not
\* positive, nothing is widened or padded: no y_limits are stored and the
\* vertical range is [min low, max high] of the displayed candles.
C4_PartialLevelsLeaveDataRange ==
    (WindowDone /\ ~AllLevelsGiven) =>
        /\ out.raised = ""
        /\ ~out.val.attrs.has_y_limits
        /\ vertical_range(out.val) = <<Num(SetMin(ShownLows)), Num(SetMax(ShownHighs))>>

\* two levels are given, one of them beyond every displayed candle, the
\* third is not positive
C4_Witness ==
    /\ WindowDone /\ ~AllLevelsGiven
    /\ ~args.signal_data.is_none
    /\ args.signal_data.keys = {"entry_price", "stop_loss", "take_profit"}
    /\ args.signal_data.entry_price > 0
    /\ args.signal_data.stop_loss < 0
    /\ args.signal_data.take_profit > SetMax(ShownHighs)
    /\ vertical_range(out.val)[2] = Num(SetMax(ShownHighs))

\* C5: the displayed candles are the last min(n, candles_to_show) candles of
\* the input, in their order; a shorter series is displayed whole.
C5_LastCandlesInOrder ==
    WindowDone =>
        LET n == Len(df.index)
            m == IF n < candles_to_show THEN n ELSE candles_to_show
        IN  /\ out.raised = ""
            /\ Len(out.val.index) = m
            /\ Len(out.val.high) = m /\ Len(out.val.low) = m /\ Len(out.val.close) = m
            /\ \A k \in 1..m : /\ out.val.index[k] = df.index[n - m + k]
                               /\ out.val.high[k] = df.high[n - m + k]
                               /\ out.val.low[k] = df.low[n - m + k]
                               /\ out.val.close[k] = df.close[n - m + k]

\* a series of 250 candles is cut to its last 100
C5_Witness ==
    /\ WindowDone /\ out.raised = ""
    /\ Len(df.index) = 250
    /\ Len(out.val.index) = 100
    /\ out.val.index[1] = df.index[151]
    /\ out.val.index[100] = df.index[250]

\* a series shorter than the display window is displayed whole
C5_WitnessShort ==
    /\ WindowDone /\ out.raised = ""
    /\ Len(df.index) = 99
    /\ out.val.index = df.index

(***************************************************************************)
(* Claims about generate_chart                                             *)
(***************************************************************************)
ChartDone == pc = "done" /\ args.op = "generate_chart"

\* the number of candles of df that are left out of the chart
Hidden == Len(df.index) - candles_to_show

\* the typical price of row i of df
TypicalPrice(i) == Rat(df.high[i].n + df.low[i].n + df.close[i].n, 3)

\* row i of df carries a positive weight
PositiveVolume(i) == "volume" \notin df.columns \/ df.volume[i].n > 0

\* C17: for a series longer than candles_to_show, generate_chart draws the
\* last candles_to_show candles and indicators computed on them alone: the
\* moving-average band is NaN on the first bb_window - 1 drawn candles, and
\* the VWAP of the first drawn candle is its own typical price when its
\* volume is positive, whatever candles of its day precede it in the series.
C17_IndicatorsOnWindowOnly ==
    (ChartDone /\ ~out.val.is_none /\ Hidden > 0) =>
        LET w == Get(args.strategy_params, "bb_window", DefaultBbWindow)
            bb == out.val.indicators.bb
            vwap == out.val.indicators.vwap
        IN  /\ out.val.plot_data.index = TailOf(df.index, candles_to_show)
            /\ bb.index = out.val.plot_data.index
            /\ vwap.index = out.val.plot_data.index
            /\ \A i \in 1..candles_to_show :
                  i < w => IsNaN(bb.ma[i]) /\ IsNaN(bb.upper[i]) /\ IsNaN(bb.lower[i])
            /\ PositiveVolume(Hidden + 1) => vwap.vwap[1] = TypicalPrice(Hidden + 1)

\* the first drawn candle follows a hidden candle of its own day that has
\* another typical price and a positive volume, and the window is above one
C17_Witness ==
    /\ ChartDone /\ ~out.val.is_none /\ Hidden > 0
    /\ args.strategy_params.bb_window > 1
    /\ "volume" \in df.columns
    /\ df.volume[Hidden + 1].n > 0 /\ df.volume[Hidden].n > 0
    /\ DateOf(df.index[Hidden]) = DateOf(df.index[Hidden + 1])
    /\ TypicalPrice(Hidden) # TypicalPrice(Hidden + 1)
    /\ out.val.indicators.vwap.vwap[1] = TypicalPrice(Hidden + 1)
    /\ IsNum(out.val.indicators.bb.ma[args.strategy_params.bb_window])

(***************************************************************************)
(* Claims about the endpoints                                              *)
(***************************************************************************)
ApiDone == pc = "done" /\ args.op \in {"/chart/generate", "/chart/generate/image"}

\* the request carries the required columns and neither signal_data nor
\* strategy_params, and mplfinance is installed
MinimalRequest ==
    /\ required_columns \subseteq df.columns
    /\ args.signal_data.is_none /\ args.strategy_params.is_none
    /\ args.available

\* C14: a request with only a symbol and data is answered by either
\* endpoint with status 200 and a chart that has no signal level lines and
\* whose bands are those of bb_window 20, bb_std 2 and vwap_std 2.
C14_MinimalRequestServed ==
    (ApiDone /\ MinimalRequest) =>
        /\ out.val.status = 200
        /\ out.val.success
        /\ ~out.val.chart.is_none
        /\ out.val.chart.lines = {}
        /\ out.val.chart.indicators
             = calculate_indicators(out.val.chart.plot_data,
                                    StrategyParams({"bb_window", "bb_std", "vwap_std"},
                                                   DefaultBbWindow, DefaultBbStd,
                                                   DefaultVwapStd)).val

(***************************************************************************)
(* Claims about the caller's series                                        *)
(***************************************************************************)
FrameDone ==
    /\ pc = "done"
    /\ args.op \in {"_prepare_chart_data", "calculate_vwap",
                    "calculate_bollinger_bands", "calculate_indicators"}

\* the objects of the heap other than the caller's frame
Copies == 2..Len(out.heap)

\* C13: after _prepare_chart_data, calculate_vwap, calculate_bollinger_bands
\* or calculate_indicators, returned or raised, the caller's series has the
\* rows, columns, index and attrs it had before the call; the date column
\* and the y_limits are found on other objects only.
C13_CallerSeriesUntouched ==
    FrameDone =>
        /\ df = args.data
        /\ "date" \notin df.columns
        /\ ~df.attrs.has_y_limits
        /\ (args.op = "_prepare_chart_data" /\ out.raised = "")
              => /\ out.ref \in Copies
                 /\ out.heap[out.ref] = out.val
        /\ (args.op = "calculate_vwap" /\ out.raised = "")
              => \E k \in Copies : "date" \in out.heap[k].columns

\* a series longer than the window prepared with three positive levels: the
\* returned copy is shorter and carries y_limits
C13_Witness ==
    /\ FrameDone /\ args.op = "_prepare_chart_data" /\ out.raised = ""
    /\ Len(df.index) > candles_to_show
    /\ Len(out.val.index) = candles_to_show
    /\ out.val.attrs.has_y_limits
    /\ df = args.data

(***************************************************************************)
(* Claims about invocations on the shared object                           *)
(***************************************************************************)
\* invocations i and j were given the same arguments and have returned
SameCall(i, j) ==
    /\ pc[i] = "done" /\ pc[j] = "done"
    /\ df[i] = df[j] /\ args[i] = args[j]

\* C15: whatever other invocations ran before or in between, an invocation
\* of calculate_indicators returns what it returns when run alone on its
\* arguments, two invocations given the same arguments return the same
\* result, and no invocation changes the shared object.
C15_ResultDependsOnArgumentsOnly ==
    /\ chart_renderer = NewChartRenderer
    /\ \A i \in Invocations :
          pc[i] = "done" =>
              out[i] = calculate_indicators(df[i], args[i].strategy_params).val
    /\ \A i, j \in Invocations : SameCall(i, j) => out[i] = out[j]

\* two invocations of the same arguments have returned both bands while
\* an invocation or the same two were in flight
C15_Witness ==
    /\ \E i, j \in Invocations :
          /\ i # j /\ SameCall(i, j)
          /\ out[i].keys = {"bb", "vwap"}
          /\ out[j] = out[i]
    /\ chart_renderer = NewChartRenderer

====
